---------------------------- MODULE Spec2Model ----------------------------
(***************************************************************************)
(* A model of avi-rs: the byte codec (src/src/bytes.rs), FourCC            *)
(* (src/src/fourcc.rs), the RIFF tree reader (src/src/riff.rs) and the AVI *)
(* reader built on it (src/src/lib.rs).                                    *)
(*                                                                         *)
(* The byte source is a finite byte string with a cursor.  The inputs are  *)
(* written as layouts (a RIFF header and a forest of items with declared   *)
(* sizes that may lie about the bytes that follow); Encode turns a layout  *)
(* into the bytes of the source, and every operation of the code works on  *)
(* those bytes only.                                                       *)
(*                                                                         *)
(* Offsets are 0-based as in the code; TLA+ sequences are 1-based, so the  *)
(* byte at offset o of buf is buf[o + 1].                                  *)
(***************************************************************************)
EXTENDS Integers, Sequences, FiniteSets, TLC

VARIABLES file,             \* the bytes of the byte source
          block,            \* 0: a read delivers all it can; B > 0: a read stops at a B-byte boundary
          overflow_checks,  \* the build: TRUE panics on integer overflow, FALSE wraps
          cursor,           \* the byte source's position
          riff,             \* outcome of the last RiffTree::read
          riff_async,       \* outcome of the last RiffTree::read_async
          avi,              \* outcome of AviAsyncReader::read_header
          call,             \* the last read_standalone_chunk / read_record_list call
          calls,            \* how many such calls were made
          chunk_id,         \* the FourCC handed to parse_stream_index
          parsed_index,     \* what parse_stream_index made of it
          codec,            \* a value on its way through write_* and read_*
          wave              \* outcome of AviWaveInfoExt::read_async on a strf payload

vars == <<file, block, overflow_checks, cursor, riff, riff_async, avi, call, calls,
          chunk_id, parsed_index, codec, wave>>

Min(a, b) == IF a < b THEN a ELSE b
Max(a, b) == IF a > b THEN a ELSE b

RECURSIVE Zeros(_)
Zeros(n) == IF n <= 0 THEN <<>> ELSE <<0>> \o Zeros(n - 1)

\* SubSeq by 0-based offset and length.
Slice(buf, off, n) == SubSeq(buf, off + 1, off + n)

(***************************************************************************)
(* bytes.rs                                                                *)
(***************************************************************************)
LittleEndian_read_u16(buf, offset) ==
    buf[offset + 2] * 256 + buf[offset + 1]

LittleEndian_read_u32(buf, offset) ==
    buf[offset + 4] * 16777216 + buf[offset + 3] * 65536
        + buf[offset + 2] * 256 + buf[offset + 1]

BigEndian_read_u32(buf, offset) ==
    buf[offset + 1] * 16777216 + buf[offset + 2] * 65536
        + buf[offset + 3] * 256 + buf[offset + 4]

LittleEndian_write_u32(n) ==
    << n % 256, (n \div 256) % 256, (n \div 65536) % 256, (n \div 16777216) % 256 >>

BigEndian_write_u32(n) ==
    << (n \div 16777216) % 256, (n \div 65536) % 256, (n \div 256) % 256, n % 256 >>

\* The codecs on all 32 bits.  A u32 is kept as its two 16-bit halves
\* <<hi, lo>>, n = hi * 2^16 + lo, so that the values from 2^31 on are there
\* too; an i32 is an integer.  (n >> k) as u8 keeps the low 8 bits of the
\* shifted value; a write stores into buf at offset and leaves the rest.
Store4(buf, offset, b) ==
    [i \in 1..Len(buf) |-> IF i > offset /\ i <= offset + 4 THEN b[i - offset] ELSE buf[i]]

U32_shr_u8(n, k) ==
    CASE k = 24 -> n[1] \div 256
      [] k = 16 -> n[1] % 256
      [] k = 8  -> n[2] \div 256
      [] k = 0  -> n[2] % 256

I32_shr_u8(n, k) ==
    CASE k = 24 -> (n \div 16777216) % 256
      [] k = 16 -> (n \div 65536) % 256
      [] k = 8  -> (n \div 256) % 256
      [] k = 0  -> n % 256

LittleEndian_write_u32_at(n, buf, offset) ==
    Store4(buf, offset,
           <<U32_shr_u8(n, 0), U32_shr_u8(n, 8), U32_shr_u8(n, 16), U32_shr_u8(n, 24)>>)

BigEndian_write_u32_at(n, buf, offset) ==
    Store4(buf, offset,
           <<U32_shr_u8(n, 24), U32_shr_u8(n, 16), U32_shr_u8(n, 8), U32_shr_u8(n, 0)>>)

LittleEndian_write_i32_at(n, buf, offset) ==
    Store4(buf, offset,
           <<I32_shr_u8(n, 0), I32_shr_u8(n, 8), I32_shr_u8(n, 16), I32_shr_u8(n, 24)>>)

BigEndian_write_i32_at(n, buf, offset) ==
    Store4(buf, offset,
           <<I32_shr_u8(n, 24), I32_shr_u8(n, 16), I32_shr_u8(n, 8), I32_shr_u8(n, 0)>>)

LittleEndian_read_u32_halves(buf, offset) ==
    <<buf[offset + 4] * 256 + buf[offset + 3], buf[offset + 2] * 256 + buf[offset + 1]>>

\* A read that would take the four bytes in the other order.
BigEndian_read_u32_reversed(buf, offset) ==
    <<buf[offset + 4] * 256 + buf[offset + 3], buf[offset + 2] * 256 + buf[offset + 1]>>

BigEndian_read_u32_halves(buf, offset) ==
    <<buf[offset + 1] * 256 + buf[offset + 2], buf[offset + 3] * 256 + buf[offset + 4]>>

\* (b as i32) << 24 takes the byte's top bit for the sign.
I32_top_byte(b) == (IF b >= 128 THEN b - 256 ELSE b) * 16777216

BigEndian_read_i32(buf, offset) ==
    I32_top_byte(buf[offset + 1]) + buf[offset + 2] * 65536
        + buf[offset + 3] * 256 + buf[offset + 4]

(***************************************************************************)
(* fourcc.rs: a FourCC is the u32 its four bytes make in big-endian order. *)
(***************************************************************************)
FourCC_from_bytes(bytes) == BigEndian_read_u32(bytes, 0)
FourCC_into_bytes(fourcc) == BigEndian_write_u32(fourcc)

B_RIFF == <<82, 73, 70, 70>>
B_RIFX == <<82, 73, 70, 88>>
B_LIST == <<76, 73, 83, 84>>
B_AVI  == <<65, 86, 73, 32>>
B_WAVE == <<87, 65, 86, 69>>
B_hdrl == <<104, 100, 114, 108>>
B_movi == <<109, 111, 118, 105>>
B_avih == <<97, 118, 105, 104>>
B_strl == <<115, 116, 114, 108>>
B_strh == <<115, 116, 114, 104>>
B_strf == <<115, 116, 114, 102>>
B_strd == <<115, 116, 114, 100>>
B_strn == <<115, 116, 114, 110>>
B_idx1 == <<105, 100, 120, 49>>
B_auds == <<97, 117, 100, 115>>
B_vids == <<118, 105, 100, 115>>
B_txts == <<116, 120, 116, 115>>
B_JUNK == <<74, 85, 78, 75>>
B_rec  == <<114, 101, 99, 32>>

RIFF_TYPE == FourCC_from_bytes(B_RIFF)
LIST_TYPE == FourCC_from_bytes(B_LIST)

(***************************************************************************)
(* The byte source.  S = [bytes, block, overflow_checks]; a reader state   *)
(* r = [pos, io] is the cursor and the seeks and reads made so far.        *)
(***************************************************************************)
Src_seek_end(S, r) ==
    [pos |-> Len(S.bytes), io |-> Append(r.io, <<"seek_end", 0>>)]

Src_seek_start(S, r, n) ==
    [pos |-> n, io |-> Append(r.io, <<"seek_start", n>>)]

Src_seek_current(S, r, d) ==
    [pos |-> r.pos + d, io |-> Append(r.io, <<"seek_current", d>>)]

\* How many bytes one read call of n bytes delivers at position pos.
Src_delivers(S, pos, n) ==
    LET avail == Max(0, Len(S.bytes) - pos)
        room  == IF S.block = 0 THEN n ELSE S.block - (pos % S.block)
    IN  Min(n, Min(avail, room))

\* One read call: the bytes delivered, possibly fewer than asked for.
Src_read(S, r, n) ==
    LET k == Src_delivers(S, r.pos, n)
    IN  [data |-> Slice(S.bytes, r.pos, k),
         r    |-> [pos |-> r.pos + k, io |-> Append(r.io, <<"read", n>>)]]

\* read_exact: reads until n bytes are in, or fails at the end of the source.
Src_read_exact(S, r, n) ==
    IF r.pos + n <= Len(S.bytes)
    THEN [ok |-> TRUE, data |-> Slice(S.bytes, r.pos, n),
          r  |-> [pos |-> r.pos + n, io |-> Append(r.io, <<"read_exact", n>>)]]
    ELSE [ok |-> FALSE, data |-> <<>>,
          r  |-> [pos |-> Max(r.pos, Len(S.bytes)),
                  io  |-> Append(r.io, <<"read_exact", n>>)]]


(***************************************************************************)
(* riff.rs: the nodes of the tree.  A chunk node holds ck_id, ck_size; a   *)
(* list node holds list_type, list_size (in the fields id, size).          *)
(***************************************************************************)
RiffChunk_padding(ck_size) ==
    LET m == ck_size % 2 IN IF m # 0 THEN 2 - m ELSE 0

RiffChunk(ck_id, ck_size, data_pos) ==
    [kind |-> "chunk", id |-> ck_id, size |-> ck_size, data_pos |-> data_pos,
     childs |-> <<>>]

RiffList(list_type, list_size, data_pos, childs) ==
    [kind |-> "list", id |-> list_type, size |-> list_size, data_pos |-> data_pos,
     childs |-> childs]

\* list_size - 4 in u32.  The wrapped value 2^32 - 4 + list_size is beyond
\* TLC's 32-bit integers; U32_WRAP stands for 2^32: every position and size
\* of the model is far below it, so every comparison comes out the same.
U32_WRAP == 1073741824
u32_wrapping_sub(a, b) == IF a >= b THEN a - b ELSE U32_WRAP + a - b

\* The RiffNode trait.
RiffNode_id(n) == n.id
RiffNode_data_pos(n) == n.data_pos
RiffNode_data_size(n) == IF n.kind = "list" THEN u32_wrapping_sub(n.size, 4) ELSE n.size
RiffNode_padding(n) == IF n.kind = "list" THEN 0 ELSE RiffChunk_padding(n.size)
RiffNode_childs(n) == n.childs

RiffFail(e, r) == [err |-> e, childs |-> <<>>, r |-> r]

(***************************************************************************)
(* riff.rs: the blocking reader.                                           *)
(***************************************************************************)
\* One read call into a zeroed 4-byte buffer; its count is not looked at.
read_fourcc(S, r) ==
    LET rd     == Src_read(S, r, 4)
        id_buf == rd.data \o Zeros(4 - Len(rd.data))
    IN  [fourcc |-> BigEndian_read_u32(id_buf, 0), r |-> rd.r]

RECURSIVE read_childs(_, _, _, _, _, _)
read_childs(S, r, childs, pos, size, file_size) ==
    LET c == Src_seek_current(S, r, 0) IN
    IF ~(c.pos < pos + size)
    THEN [err |-> "None", childs |-> childs, r |-> c]
    ELSE
    LET f == read_fourcc(S, c) IN
    IF f.fourcc = LIST_TYPE
    THEN LET h == Src_read_exact(S, f.r, 8) IN
         IF ~h.ok THEN RiffFail("Io", h.r)
         ELSE
         LET list_size == LittleEndian_read_u32(h.data, 0)
             list_type == BigEndian_read_u32(h.data, 4)
         IN
         IF pos + (12 - 4) + list_size >= file_size
         THEN RiffFail("InvalidListHeader", h.r)
         ELSE
         LET d == Src_seek_current(S, h.r, 0)
             data_pos == d.pos
         IN
         IF list_size < 4 /\ S.overflow_checks
         THEN RiffFail("Panic", d)
         ELSE
         LET sub == read_childs(S, d, <<>>, data_pos,
                                u32_wrapping_sub(list_size, 4), file_size)
         IN
         IF sub.err # "None" THEN sub
         ELSE read_childs(S, sub.r,
                          Append(childs, RiffList(list_type, list_size, data_pos, sub.childs)),
                          pos, size, file_size)
    ELSE LET h == Src_read_exact(S, f.r, 4) IN
         IF ~h.ok THEN RiffFail("Io", h.r)
         ELSE
         LET chunk_size == LittleEndian_read_u32(h.data, 0) IN
         IF pos + 8 + chunk_size >= file_size
         THEN RiffFail("InvalidChunkHeader", h.r)
         ELSE
         LET d == Src_seek_current(S, h.r, 0)
             data_pos == d.pos
             padding == RiffChunk_padding(chunk_size)
             k == Src_seek_current(S, d, chunk_size + padding)
         IN read_childs(S, k, Append(childs, RiffChunk(f.fourcc, chunk_size, data_pos)),
                        pos, size, file_size)

NoHeader == [file_size |-> 0, file_type |-> 0]

RiffTree_read(S, r0) ==
    LET e == Src_seek_end(S, r0)
        riff_file_len == e.pos
        s == Src_seek_start(S, e, 0)
        h == Src_read_exact(S, s, 12)
    IN
    IF ~h.ok THEN [err |-> "Io", header |-> NoHeader, childs |-> <<>>, r |-> h.r]
    ELSE
    LET riff_type == BigEndian_read_u32(h.data, 0)
        riff_file_size == LittleEndian_read_u32(h.data, 4)
        riff_file_type == BigEndian_read_u32(h.data, 8)
    IN
    IF riff_type # RIFF_TYPE \/ riff_file_size > riff_file_len \/ riff_file_size < 4
    THEN [err |-> "InvalidRiffHeader", header |-> NoHeader, childs |-> <<>>, r |-> h.r]
    ELSE
    LET p == Src_seek_current(S, h.r, 0)
        c == read_childs(S, p, <<>>, p.pos, riff_file_size - 4, riff_file_len)
    IN
    IF c.err # "None"
    THEN [err |-> c.err, header |-> NoHeader, childs |-> <<>>, r |-> c.r]
    ELSE [err |-> "None",
          header |-> [file_size |-> riff_file_size, file_type |-> riff_file_type],
          childs |-> c.childs, r |-> c.r]

(***************************************************************************)
(* riff.rs: the cooperative reader.                                        *)
(***************************************************************************)
\* A read_fourcc that would insist on all four bytes.
read_fourcc_exact(S, r) ==
    LET rd     == Src_read_exact(S, r, 4)
        id_buf == rd.data \o Zeros(4 - Len(rd.data))
    IN  [fourcc |-> BigEndian_read_u32(id_buf, 0), r |-> rd.r]

\* One read call into a zeroed 4-byte buffer; its count is not looked at.
read_fourcc_async(S, r) ==
    LET rd     == Src_read(S, r, 4)
        id_buf == rd.data \o Zeros(4 - Len(rd.data))
    IN  [fourcc |-> BigEndian_read_u32(id_buf, 0), r |-> rd.r]

RECURSIVE read_childs_async(_, _, _, _, _, _)
read_childs_async(S, r, childs, pos, size, file_size) ==
    LET c == Src_seek_current(S, r, 0) IN
    IF ~(c.pos < pos + size)
    THEN [err |-> "None", childs |-> childs, r |-> c]
    ELSE
    LET f == read_fourcc_async(S, c) IN
    IF f.fourcc = LIST_TYPE
    THEN LET h == Src_read_exact(S, f.r, 8) IN
         IF ~h.ok THEN RiffFail("Io", h.r)
         ELSE
         LET list_size == LittleEndian_read_u32(h.data, 0)
             list_type == BigEndian_read_u32(h.data, 4)
         IN
         IF pos + (12 - 4) + list_size >= file_size
         THEN RiffFail("InvalidListHeader", h.r)
         ELSE
         LET d == Src_seek_current(S, h.r, 0)
             data_pos == d.pos
         IN
         IF list_size < 4 /\ S.overflow_checks
         THEN RiffFail("Panic", d)
         ELSE
         LET sub == read_childs_async(S, d, <<>>, data_pos,
                                u32_wrapping_sub(list_size, 4), file_size)
         IN
         IF sub.err # "None" THEN sub
         ELSE read_childs_async(S, sub.r,
                          Append(childs, RiffList(list_type, list_size, data_pos, sub.childs)),
                          pos, size, file_size)
    ELSE LET h == Src_read_exact(S, f.r, 4) IN
         IF ~h.ok THEN RiffFail("Io", h.r)
         ELSE
         LET chunk_size == LittleEndian_read_u32(h.data, 0) IN
         IF pos + 8 + chunk_size >= file_size
         THEN RiffFail("InvalidChunkHeader", h.r)
         ELSE
         LET d == Src_seek_current(S, h.r, 0)
             data_pos == d.pos
             padding == RiffChunk_padding(chunk_size)
             k == Src_seek_current(S, d, chunk_size + padding)
         IN read_childs_async(S, k, Append(childs, RiffChunk(f.fourcc, chunk_size, data_pos)),
                        pos, size, file_size)

RiffTree_read_async(S, r0) ==
    LET e == Src_seek_end(S, r0)
        riff_file_len == e.pos
        s == Src_seek_start(S, e, 0)
        h == Src_read_exact(S, s, 12)
    IN
    IF ~h.ok THEN [err |-> "Io", header |-> NoHeader, childs |-> <<>>, r |-> h.r]
    ELSE
    LET riff_type == BigEndian_read_u32(h.data, 0)
        riff_file_size == LittleEndian_read_u32(h.data, 4)
        riff_file_type == BigEndian_read_u32(h.data, 8)
    IN
    IF riff_type # RIFF_TYPE \/ riff_file_size > riff_file_len \/ riff_file_size < 4
    THEN [err |-> "InvalidRiffHeader", header |-> NoHeader, childs |-> <<>>, r |-> h.r]
    ELSE
    LET p == Src_seek_current(S, h.r, 0)
        c == read_childs_async(S, p, <<>>, p.pos, riff_file_size - 4, riff_file_len)
    IN
    IF c.err # "None"
    THEN [err |-> c.err, header |-> NoHeader, childs |-> <<>>, r |-> c.r]
    ELSE [err |-> "None",
          header |-> [file_size |-> riff_file_size, file_type |-> riff_file_type],
          childs |-> c.childs, r |-> c.r]


(***************************************************************************)
(* lib.rs: constants and the decoded structures.                           *)
(***************************************************************************)
AVI_FILE_TYPE == FourCC_from_bytes(B_AVI)
HDRL_TYPE == FourCC_from_bytes(B_hdrl)
MOVI_TYPE == FourCC_from_bytes(B_movi)
AVIH_TYPE == FourCC_from_bytes(B_avih)
STRL_TYPE == FourCC_from_bytes(B_strl)
STRH_TYPE == FourCC_from_bytes(B_strh)
STRF_TYPE == FourCC_from_bytes(B_strf)
STRD_TYPE == FourCC_from_bytes(B_strd)
STRN_TYPE == FourCC_from_bytes(B_strn)
IDX1_TYPE == FourCC_from_bytes(B_idx1)
AUDIO_STREAM_TYPE == FourCC_from_bytes(B_auds)
VIDEO_STREAM_TYPE == FourCC_from_bytes(B_vids)

AVI_MAX_STREAMS == 100

\* std::mem::size_of of the structures read_header sizes its reads by.
SizeOf_AviMainHeader == 56
SizeOf_AviStreamHeader == 56
SizeOf_AviBitmapInfo == 40
SizeOf_AviWaveInfo == 20
SizeOf_OptionU16 == 4
SizeOf_AviWaveExtraInfo == 24

\* mmreg.rs is not among the sources; the values are the specification's.
WAVE_FORMAT_PCM == 1
WAVE_FORMAT_EXTENSIBLE == 65534

None == [some |-> FALSE, v |-> 0]
Some(x) == [some |-> TRUE, v |-> x]

LittleEndian_read_i16(buf, offset) ==
    LET hi == buf[offset + 2] IN
    (IF hi >= 128 THEN hi - 256 ELSE hi) * 256 + buf[offset + 1]

LittleEndian_read_i32(buf, offset) ==
    LET hi == buf[offset + 4] IN
    (IF hi >= 128 THEN hi - 256 ELSE hi) * 16777216 + buf[offset + 3] * 65536
        + buf[offset + 2] * 256 + buf[offset + 1]

AviMainHeader_read_async(S, r) ==
    LET h == Src_read_exact(S, r, SizeOf_AviMainHeader)
        buf == h.data
    IN
    IF ~h.ok THEN [err |-> "Io", v |-> <<>>, r |-> h.r]
    ELSE IF \/ LittleEndian_read_u32(buf, 40) # 0
            \/ LittleEndian_read_u32(buf, 44) # 0
            \/ LittleEndian_read_u32(buf, 48) # 0
            \/ LittleEndian_read_u32(buf, 52) # 0
    THEN [err |-> "InvalidMainHeader", v |-> <<>>, r |-> h.r]
    ELSE [err |-> "None",
          v |-> [dw_micro_sec_per_frame |-> LittleEndian_read_u32(buf, 0),
                 dw_max_bytes_per_sec |-> LittleEndian_read_u32(buf, 4),
                 dw_padding_granularity |-> LittleEndian_read_u32(buf, 8),
                 dw_flags |-> LittleEndian_read_u32(buf, 12),
                 dw_total_frames |-> LittleEndian_read_u32(buf, 16),
                 dw_initial_frames |-> LittleEndian_read_u32(buf, 20),
                 dw_streams |-> LittleEndian_read_u32(buf, 24),
                 dw_suggested_buffer_size |-> LittleEndian_read_u32(buf, 28),
                 dw_width |-> LittleEndian_read_u32(buf, 32),
                 dw_height |-> LittleEndian_read_u32(buf, 36),
                 dw_reserved |-> <<0, 0, 0, 0>>],
          r |-> h.r]

AviStreamHeader_read_async(S, r) ==
    LET h == Src_read_exact(S, r, SizeOf_AviStreamHeader)
        buf == h.data
    IN
    IF ~h.ok THEN [err |-> "Io", v |-> <<>>, r |-> h.r]
    ELSE [err |-> "None",
          v |-> [fcc_type |-> BigEndian_read_u32(buf, 0),
                 fcc_handler |-> BigEndian_read_u32(buf, 4),
                 dw_flags |-> LittleEndian_read_u32(buf, 8),
                 w_priority |-> LittleEndian_read_u16(buf, 12),
                 w_language |-> LittleEndian_read_u16(buf, 14),
                 dw_initial_frames |-> LittleEndian_read_u32(buf, 16),
                 dw_scale |-> LittleEndian_read_u32(buf, 20),
                 dw_rate |-> LittleEndian_read_u32(buf, 24),
                 dw_start |-> LittleEndian_read_u32(buf, 28),
                 dw_length |-> LittleEndian_read_u32(buf, 32),
                 dw_suggested_buffer_size |-> LittleEndian_read_u32(buf, 36),
                 dw_quality |-> LittleEndian_read_u32(buf, 40),
                 dw_sample_size |-> LittleEndian_read_u32(buf, 44),
                 rc_frame |-> [left |-> LittleEndian_read_i16(buf, 48),
                               top |-> LittleEndian_read_i16(buf, 50),
                               right |-> LittleEndian_read_i16(buf, 52),
                               bottom |-> LittleEndian_read_i16(buf, 54)]],
          r |-> h.r]

AviBitmapInfo_read_async(S, r) ==
    LET h == Src_read_exact(S, r, SizeOf_AviBitmapInfo)
        buf == h.data
    IN
    IF ~h.ok THEN [err |-> "Io", v |-> <<>>, r |-> h.r]
    ELSE [err |-> "None",
          v |-> [bi_size |-> LittleEndian_read_u32(buf, 0),
                 bi_width |-> LittleEndian_read_i32(buf, 4),
                 bi_height |-> LittleEndian_read_i32(buf, 8),
                 bi_planes |-> LittleEndian_read_u16(buf, 12),
                 bi_bit_count |-> LittleEndian_read_u16(buf, 14),
                 bi_compression |-> LittleEndian_read_u32(buf, 16),
                 bi_size_image |-> LittleEndian_read_u32(buf, 20),
                 bi_x_pels_per_meter |-> LittleEndian_read_i32(buf, 24),
                 bi_y_pels_per_meter |-> LittleEndian_read_i32(buf, 28),
                 bi_clr_used |-> LittleEndian_read_u32(buf, 32),
                 bi_clr_important |-> LittleEndian_read_u32(buf, 36)],
          r |-> h.r]

AviWaveInfo_read_async(S, r) ==
    LET h == Src_read_exact(S, r, 16)
        buf == h.data
    IN
    IF ~h.ok THEN [err |-> "Io", v |-> <<>>, r |-> h.r]
    ELSE
    LET w_format_tag == LittleEndian_read_u16(buf, 0)
        c == IF w_format_tag # WAVE_FORMAT_PCM
             THEN Src_read_exact(S, h.r, 2)
             ELSE [ok |-> TRUE, data |-> <<>>, r |-> h.r]
    IN
    IF ~c.ok THEN [err |-> "Io", v |-> <<>>, r |-> c.r]
    ELSE [err |-> "None",
          v |-> [w_format_tag |-> w_format_tag,
                 n_channels |-> LittleEndian_read_u16(buf, 2),
                 n_samples_per_sec |-> LittleEndian_read_u32(buf, 4),
                 n_avg_bytes_per_sec |-> LittleEndian_read_u32(buf, 8),
                 n_block_align |-> LittleEndian_read_u16(buf, 12),
                 w_bits_per_sample |-> LittleEndian_read_u16(buf, 14),
                 cb_size |-> IF w_format_tag # WAVE_FORMAT_PCM
                             THEN Some(LittleEndian_read_u16(c.data, 0))
                             ELSE None],
          r |-> c.r]

\* The extension block is read into buf, and then data4[i] = buf[i] for i in
\* 14..22 indexes the 8-byte data4 at 14: the index is out of range.
AviWaveInfoExt_read_async(S, r) ==
    LET f == AviWaveInfo_read_async(S, r) IN
    IF f.err # "None" THEN f
    ELSE IF f.v.w_format_tag = WAVE_FORMAT_EXTENSIBLE
    THEN LET h == Src_read_exact(S, f.r, SizeOf_AviWaveExtraInfo) IN
         IF ~h.ok THEN [err |-> "Io", v |-> <<>>, r |-> h.r]
         ELSE [err |-> "Panic", v |-> <<>>, r |-> h.r]
    ELSE [err |-> "None", v |-> [format |-> f.v, extra |-> None], r |-> f.r]

(***************************************************************************)
(* lib.rs: AviUtil::parse_stream_index.  The first two bytes of the FourCC *)
(* go through str::from_utf8 and then u8's FromStr.                        *)
(***************************************************************************)
IsAsciiDigit(b) == b >= 48 /\ b <= 57

\* std::str::from_utf8 on two bytes: two ASCII bytes, or one two-byte sequence.
Utf8Valid2(b0, b1) ==
    \/ b0 < 128 /\ b1 < 128
    \/ b0 >= 194 /\ b0 <= 223 /\ b1 >= 128 /\ b1 <= 191

\* <u8 as FromStr>::from_str on a two-byte str: an optional '+', then decimal
\* digits; a '-' is no digit of an unsigned type.
U8FromStr2(b0, b1) ==
    IF b0 = 43
    THEN IF IsAsciiDigit(b1) THEN [err |-> "None", v |-> b1 - 48]
         ELSE [err |-> "ParseIntError", v |-> 0]
    ELSE IF IsAsciiDigit(b0) /\ IsAsciiDigit(b1)
         THEN [err |-> "None", v |-> (b0 - 48) * 10 + (b1 - 48)]
         ELSE [err |-> "ParseIntError", v |-> 0]

parse_stream_index(fourcc) ==
    LET buf == FourCC_into_bytes(fourcc)
        index_buf == <<buf[1], buf[2]>>
    IN  IF ~Utf8Valid2(index_buf[1], index_buf[2])
        THEN [err |-> "Utf8Error", v |-> 0]
        ELSE U8FromStr2(index_buf[1], index_buf[2])

(***************************************************************************)
(* lib.rs: AviAsyncReader::read_header, in the order of its code: the scan *)
(* of the top-level children, the hdrl list, the movi list.                *)
(***************************************************************************)
RiffChunk_header(n) == [ck_id |-> n.id, ck_size |-> n.size, data_pos |-> n.data_pos]
RiffList_header(n) == [list_type |-> n.id, list_size |-> n.size, data_pos |-> n.data_pos]
RiffChunkHeader_data_size(h) == h.ck_size
RiffChunkHeader_data_pos(h) == h.data_pos
RiffListHeader_data_pos(h) == h.data_pos

\* A loop over riff_childs that would keep the last child of each id.
RECURSIVE scan_childs_last(_, _, _, _, _)
scan_childs_last(riff_childs, n, hdrl_node, movi_node, idx1_node) ==
    IF n > Len(riff_childs)
    THEN [err |-> "None", hdrl_node |-> hdrl_node, movi_node |-> movi_node,
          idx1_node |-> idx1_node]
    ELSE
    LET id == RiffNode_id(riff_childs[n]) IN
    scan_childs_last(riff_childs, n + 1,
                     IF id = HDRL_TYPE THEN Some(n) ELSE hdrl_node,
                     IF id = MOVI_TYPE THEN Some(n) ELSE movi_node,
                     IF id = IDX1_TYPE THEN Some(n) ELSE idx1_node)

\* The loop over riff_childs: the first second occurrence of an id ends it.
RECURSIVE scan_childs(_, _, _, _, _)
scan_childs(riff_childs, n, hdrl_node, movi_node, idx1_node) ==
    IF n > Len(riff_childs)
    THEN [err |-> "None", hdrl_node |-> hdrl_node, movi_node |-> movi_node,
          idx1_node |-> idx1_node]
    ELSE
    LET child == riff_childs[n]
        id == RiffNode_id(child)
        fail(e) == [err |-> e, hdrl_node |-> hdrl_node, movi_node |-> movi_node,
                    idx1_node |-> idx1_node]
    IN
    IF id = HDRL_TYPE
    THEN IF hdrl_node.some THEN fail("DuplicateHdrlList")
         ELSE scan_childs(riff_childs, n + 1, Some(n), movi_node, idx1_node)
    ELSE IF id = MOVI_TYPE
    THEN IF movi_node.some THEN fail("DuplicateMoviList")
         ELSE scan_childs(riff_childs, n + 1, hdrl_node, Some(n), idx1_node)
    ELSE IF id = IDX1_TYPE
    THEN IF idx1_node.some THEN fail("DuplicateIdx1Chunk")
         ELSE scan_childs(riff_childs, n + 1, hdrl_node, movi_node, Some(n))
    ELSE scan_childs(riff_childs, n + 1, hdrl_node, movi_node, idx1_node)

StrlFail(e, r) == [err |-> e, item |-> <<>>, r |-> r]

\* The optional children of a strl, read forward from where the cursor is.
\* strf_cursor, strd_cursor and strn_cursor are no fields of AviStreamListItem:
\* they keep where the cursor stood when the child's payload was read.
read_additional_data(S, r, strl_childs, strl_item) ==
    LET strl_childs_len == Len(strl_childs) IN
    IF strl_childs_len = 2
    THEN [err |-> "None", item |-> strl_item, r |-> r]
    ELSE IF strl_childs_len = 3
    THEN LET last == strl_childs[3]
             last_id == RiffNode_id(last)
         IN
         IF last_id # STRN_TYPE \/ last_id # STRD_TYPE
         THEN StrlFail("InvalidStreamAdditionalData", r)
         ELSE
         LET b == Src_read_exact(S, r, RiffNode_data_size(last) + RiffNode_padding(last)) IN
         IF ~b.ok THEN StrlFail("Io", b.r)
         ELSE IF last_id = STRN_TYPE
         THEN [err |-> "None",
               item |-> [strl_item EXCEPT !.strn = Some(b.data), !.strn_cursor = Some(r.pos)],
               r |-> b.r]
         ELSE [err |-> "None",
               item |-> [strl_item EXCEPT !.strd = Some(b.data), !.strd_cursor = Some(r.pos)],
               r |-> b.r]
    ELSE
    LET strd == strl_childs[3]
        strn == strl_childs[4]
    IN
    IF RiffNode_id(strd) # STRD_TYPE \/ RiffNode_id(strn) # STRN_TYPE
    THEN StrlFail("InvalidStreamAdditionalData", r)
    ELSE
    LET d == Src_read_exact(S, r, RiffNode_data_size(strd) + RiffNode_padding(strd)) IN
    IF ~d.ok THEN StrlFail("Io", d.r)
    ELSE
    LET n == Src_read_exact(S, d.r, RiffNode_data_size(strn) + RiffNode_padding(strn)) IN
    IF ~n.ok THEN StrlFail("Io", n.r)
    ELSE [err |-> "None",
          item |-> [strl_item EXCEPT !.strd = Some(d.data), !.strn = Some(n.data),
                                     !.strd_cursor = Some(r.pos),
                                     !.strn_cursor = Some(d.r.pos)],
          r |-> n.r]

\* One pass of the loop over hdrl_childs[1..], from the stream header h that
\* was decoded on: the stream format, then the optional children.
parse_strl_strf(S, strl_childs, i, h) ==
    IF h.err # "None" THEN StrlFail(h.err, h.r)
    ELSE
    LET strh == h.v
        strf_header == strl_childs[2]
        item(strf) == [index |-> i - 1, strh |-> strh, strf |-> strf,
                       strd |-> None, strn |-> None,
                       strf_cursor |-> h.r.pos, strd_cursor |-> None, strn_cursor |-> None]
    IN
    IF strh.fcc_type = VIDEO_STREAM_TYPE
    THEN IF RiffNode_data_size(strf_header) # SizeOf_AviBitmapInfo
         THEN StrlFail("InvalidStreamFormatHeader", h.r)
         ELSE LET abih == AviBitmapInfo_read_async(S, h.r) IN
              IF abih.err # "None" THEN StrlFail(abih.err, abih.r)
              ELSE read_additional_data(S, abih.r, strl_childs,
                       item([video |-> Some(abih.v), audio |-> None]))
    ELSE IF strh.fcc_type = AUDIO_STREAM_TYPE
    THEN IF RiffNode_data_size(strf_header) < SizeOf_AviWaveInfo - SizeOf_OptionU16
         THEN StrlFail("InvalidStreamFormatHeader", h.r)
         ELSE LET awie == AviWaveInfoExt_read_async(S, h.r) IN
              IF awie.err # "None" THEN StrlFail(awie.err, awie.r)
              ELSE read_additional_data(S, awie.r, strl_childs,
                       item([video |-> None, audio |-> Some(awie.v)]))
    ELSE StrlFail("UnsupportedStreamType", h.r)

\* One pass of the loop over hdrl_childs[1..]: child i (0-based) is a strl.
parse_strl(S, r, child, i) ==
    LET strl_childs == RiffNode_childs(child)
        strl_childs_len == Len(strl_childs)
    IN
    IF strl_childs_len < 2 \/ strl_childs_len > 4
    THEN StrlFail("InvalidStreamList", r)
    ELSE
    LET strh_node == strl_childs[1] IN
    IF RiffNode_data_size(strh_node) # SizeOf_AviStreamHeader
    THEN StrlFail("InvalidStreamHeader", r)
    ELSE parse_strl_strf(S, strl_childs, i,
             AviStreamHeader_read_async(S,
                 Src_seek_start(S, r, RiffNode_data_pos(strh_node))))

\* The loop over hdrl_childs[1..]; parse_strls_push takes the outcome p of
\* one pass: an error ends the loop, a stream is pushed on strl.
RECURSIVE parse_strls(_, _, _, _, _), parse_strls_push(_, _, _, _, _)
parse_strls(S, r, hdrl_childs, i, strl) ==
    IF ~(i < Len(hdrl_childs))
    THEN [err |-> "None", strl |-> strl, r |-> r]
    ELSE parse_strls_push(S, hdrl_childs, i, strl, parse_strl(S, r, hdrl_childs[i + 1], i))

parse_strls_push(S, hdrl_childs, i, strl, p) ==
    IF p.err # "None" THEN [err |-> p.err, strl |-> <<>>, r |-> p.r]
    ELSE parse_strls(S, p.r, hdrl_childs, i + 1, Append(strl, p.item))

HdrlFail(e, r) == [err |-> e, header |-> <<>>, r |-> r]

\* The AviHeader, from the main header and the outcome p of the strl loop.
parse_hdrl_header(avih, p) ==
    IF p.err # "None" THEN HdrlFail(p.err, p.r)
    ELSE [err |-> "None", header |-> [avih |-> avih, strl |-> p.strl], r |-> p.r]

\* From the outcome avih of the main header's decoding on.
parse_hdrl_strls(S, hdrl_childs, avih) ==
    IF avih.err # "None" THEN HdrlFail(avih.err, avih.r)
    ELSE parse_hdrl_header(avih.v, parse_strls(S, avih.r, hdrl_childs, 1, <<>>))

\* "Parsing hdrl": hdrl_childs[0] is taken without a look at the length.
parse_hdrl(S, r, hdrl) ==
    LET hdrl_childs == RiffNode_childs(hdrl)
        hdrl_childs_len == Len(hdrl_childs)
    IN
    IF hdrl_childs_len > AVI_MAX_STREAMS + 1 THEN HdrlFail("InvalidHdrlList", r)
    ELSE IF hdrl_childs_len = 0 THEN HdrlFail("Panic", r)
    ELSE
    LET avih_node == hdrl_childs[1] IN
    IF RiffNode_data_size(avih_node) # SizeOf_AviMainHeader
    THEN HdrlFail("InvalidMainHeader", r)
    ELSE parse_hdrl_strls(S, hdrl_childs,
             AviMainHeader_read_async(S,
                 Src_seek_start(S, r, RiffNode_data_pos(avih_node))))

MoviFail(e) == [err |-> e, movi |-> <<>>, recs |-> <<>>]

\* A chunk_index that would not count the chunks filed before.
first_chunk_index(stream) == 0

\* chunk_index of a chunk that stands in movi itself.
standalone_chunk_index(stream) == Len(stream.chunks)

\* A media chunk is filed under stream stream_index (0-based).
push_chunk(movi, stream_index, c) ==
    [movi EXCEPT ![stream_index + 1].chunks = Append(@, c)]

\* The loop over the children of one record list, recs[recs_index].
RECURSIVE index_record_list(_, _, _, _, _)
index_record_list(rec_childs, j, movi, recs, recs_index) ==
    IF ~(j < Len(rec_childs))
    THEN [err |-> "None", movi |-> movi, recs |-> recs]
    ELSE
    LET chunk == rec_childs[j + 1] IN
    IF RiffNode_childs(chunk) # <<>> THEN MoviFail("InvalidMoviList")
    ELSE IF chunk.kind # "chunk" THEN MoviFail("InvalidChunkCast")
    ELSE
    LET recs1 == [recs EXCEPT ![recs_index + 1].childs = Append(@, RiffChunk_header(chunk))]
        p == parse_stream_index(RiffNode_id(chunk))
    IN
    IF p.err # "None" THEN MoviFail(p.err)
    ELSE
    LET stream_index == p.v IN
    IF ~(stream_index < Len(movi)) THEN MoviFail("InvalidMoviList")
    ELSE index_record_list(rec_childs, j + 1,
             push_chunk(movi, stream_index,
                        [rec_index |-> Some(recs_index), chunk_index |-> j,
                         stream_index |-> stream_index,
                         chunk |-> RiffChunk_header(chunk)]),
             recs1, recs_index)

\* "Parse movi list": the loop over the children of movi.
RECURSIVE index_movi(_, _, _, _)
index_movi(movi_childs, n, movi, recs) ==
    IF n > Len(movi_childs)
    THEN [err |-> "None", movi |-> movi, recs |-> recs]
    ELSE
    LET rec_or_chunk == movi_childs[n] IN
    IF RiffNode_childs(rec_or_chunk) = <<>>
    THEN LET p == parse_stream_index(RiffNode_id(rec_or_chunk)) IN
         IF p.err # "None" THEN MoviFail(p.err)
         ELSE
         LET stream_index == p.v IN
         IF ~(stream_index < Len(movi)) THEN MoviFail("InvalidMoviList")
         ELSE IF rec_or_chunk.kind # "chunk" THEN MoviFail("InvalidChunkCast")
         ELSE index_movi(movi_childs, n + 1,
                  push_chunk(movi, stream_index,
                             [rec_index |-> None,
                              chunk_index |-> standalone_chunk_index(movi[stream_index + 1]),
                              stream_index |-> stream_index,
                              chunk |-> RiffChunk_header(rec_or_chunk)]),
                  recs)
    ELSE IF rec_or_chunk.kind # "list" THEN MoviFail("InvalidListCast")
    ELSE
    LET recs1 == Append(recs, [header |-> RiffList_header(rec_or_chunk), childs |-> <<>>])
        recs_index == Len(recs1) - 1
        q == index_record_list(RiffNode_childs(rec_or_chunk), 0, movi, recs1, recs_index)
    IN
    IF q.err # "None" THEN q
    ELSE index_movi(movi_childs, n + 1, q.movi, q.recs)

AviFail(e, r) ==
    [kind |-> IF e = "Panic" THEN "panic" ELSE "err", err |-> e, header |-> <<>>,
     riff_tree |-> <<>>, movi |-> <<>>, recs |-> <<>>, pos |-> r.pos]

\* The stream table before any chunk is filed: one entry per strl.
movi_init(header) ==
    [i \in 1..Len(header.strl) |->
        [index |-> i - 1, format |-> header.strl[i].strf, chunks |-> <<>>]]

\* The reader, from the outcome m of "Parse movi list".
read_header_reader(riff_tree, h, m) ==
    IF m.err # "None" THEN AviFail(m.err, h.r)
    ELSE [kind |-> "reader", err |-> "None", header |-> h.header,
          riff_tree |-> [header |-> riff_tree.header, childs |-> riff_tree.childs],
          movi |-> m.movi, recs |-> m.recs, pos |-> h.r.pos]

\* A reader that would do without a movi list.
read_header_no_movi(riff_tree, sc, h) ==
    IF h.err # "None" THEN AviFail(h.err, h.r)
    ELSE read_header_reader(riff_tree, h,
             IF ~sc.movi_node.some
             THEN [err |-> "None", movi |-> movi_init(h.header), recs |-> <<>>]
             ELSE index_movi(RiffNode_childs(riff_tree.childs[sc.movi_node.v]), 1,
                             movi_init(h.header), <<>>))

\* From the outcome h of "Parsing hdrl" on: the movi list.
read_header_movi(riff_tree, sc, h) ==
    IF h.err # "None" THEN AviFail(h.err, h.r)
    ELSE IF ~sc.movi_node.some THEN AviFail("MoviNotFound", h.r)
    ELSE read_header_reader(riff_tree, h,
             index_movi(RiffNode_childs(riff_tree.childs[sc.movi_node.v]), 1,
                        movi_init(h.header), <<>>))

\* From the outcome sc of the scan of the top-level children on: the hdrl list.
read_header_hdrl(S, riff_tree, sc) ==
    IF sc.err # "None" THEN AviFail(sc.err, riff_tree.r)
    ELSE IF ~sc.hdrl_node.some THEN AviFail("HdrlNotFound", riff_tree.r)
    ELSE read_header_movi(riff_tree, sc,
             parse_hdrl(S, riff_tree.r, riff_tree.childs[sc.hdrl_node.v]))

\* From the RIFF tree on: the file type, the scan of the top-level children.
read_header_scan(S, riff_tree) ==
    IF riff_tree.err # "None" THEN AviFail(riff_tree.err, riff_tree.r)
    ELSE IF riff_tree.header.file_type # AVI_FILE_TYPE
    THEN AviFail("InvalidRiffFileType", riff_tree.r)
    ELSE read_header_hdrl(S, riff_tree,
             scan_childs(riff_tree.childs, 1, None, None, None))

read_header(S, r0) == read_header_scan(S, RiffTree_read_async(S, r0))

(***************************************************************************)
(* lib.rs: the random-access reads of an AviAsyncReader.  r is the cursor  *)
(* of the reader's byte source, buf the caller's buffer.                   *)
(***************************************************************************)
CallResult(e, r, buf, slices) == [err |-> e, r |-> r, buf |-> buf, slices |-> slices]

\* A read_standalone_chunk that would seek before it looks at rec_index.
read_standalone_chunk_seek_first(S, r, chunk, buf) ==
    LET k == Src_seek_start(S, r, RiffChunkHeader_data_pos(chunk.chunk)) IN
    IF chunk.rec_index.some
    THEN CallResult("ChunkInRecordList", k, buf, <<>>)
    ELSE
    LET chunk_size == RiffChunkHeader_data_size(chunk.chunk) IN
    IF chunk_size > Len(buf) THEN CallResult("Panic", k, buf, <<>>)
    ELSE
    LET rd == Src_read(S, k, chunk_size) IN
    CallResult("None", rd.r,
               rd.data \o SubSeq(buf, Len(rd.data) + 1, Len(buf)), <<>>)

read_standalone_chunk(S, r, chunk, buf) ==
    IF chunk.rec_index.some
    THEN CallResult("ChunkInRecordList", r, buf, <<>>)
    ELSE
    LET chunk_size == RiffChunkHeader_data_size(chunk.chunk)
        k == Src_seek_start(S, r, RiffChunkHeader_data_pos(chunk.chunk))
    IN
    IF chunk_size > Len(buf) THEN CallResult("Panic", k, buf, <<>>)
    ELSE
    LET rd == Src_read(S, k, chunk_size) IN
    CallResult("None", rd.r,
               rd.data \o SubSeq(buf, Len(rd.data) + 1, Len(buf)), <<>>)

\* A position that would count from the first child's payload.
relative_pos_of_payload(chunk, records_pos) ==
    RiffChunkHeader_data_pos(chunk) - records_pos - 8

\* The position of a child's payload in the buffer of its record list.
relative_pos(chunk, records_pos) == RiffChunkHeader_data_pos(chunk) - records_pos

RECURSIVE record_slices(_, _, _, _, _)
record_slices(childs, n, records_pos, buf, slices) ==
    IF n > Len(childs) THEN [err |-> "None", slices |-> slices]
    ELSE
    LET chunk == childs[n]
        rel_pos == relative_pos(chunk, records_pos)
        rel_end == rel_pos + RiffChunkHeader_data_size(chunk)
    IN
    IF rel_end > Len(buf) THEN [err |-> "Panic", slices |-> <<>>]
    ELSE record_slices(childs, n + 1, records_pos, buf,
                       Append(slices, [from |-> rel_pos, to |-> rel_end,
                                       bytes |-> SubSeq(buf, rel_pos + 1, rel_end)]))

read_record_list(S, r, recs, record_list_index, buf) ==
    IF ~(record_list_index < Len(recs))
    THEN CallResult("InvalidRecordList", r, buf, <<>>)
    ELSE
    LET records == recs[record_list_index + 1]
        records_pos == RiffListHeader_data_pos(records.header)
        k == Src_seek_start(S, r, records_pos)
        rd == Src_read_exact(S, k, Len(buf))
    IN
    IF ~rd.ok
    THEN CallResult("Io", rd.r,
                    LET got == Slice(S.bytes, k.pos, Src_delivers([S EXCEPT !.block = 0], k.pos, Len(buf)))
                    IN got \o SubSeq(buf, Len(got) + 1, Len(buf)),
                    <<>>)
    ELSE
    LET sl == record_slices(records.childs, 1, records_pos, rd.data, <<>>) IN
    CallResult(sl.err, rd.r, rd.data, sl.slices)

(***************************************************************************)
(* The content of the byte source.  An item is a chunk (id, declared size, *)
(* the bytes that follow the header) or a LIST (type, declared size, the   *)
(* items that follow); a file is a 12-byte RIFF header, items, and slack   *)
(* bytes after them.                                                       *)
(***************************************************************************)
RECURSIVE EncodeItem(_), EncodeItems(_)
EncodeItem(it) ==
    IF it.k = "c"
    THEN it.id \o LittleEndian_write_u32(it.size) \o it.data
    ELSE B_LIST \o LittleEndian_write_u32(it.size) \o it.id \o EncodeItems(it.childs)

EncodeItems(items) ==
    IF items = <<>> THEN <<>>
    ELSE EncodeItem(Head(items)) \o EncodeItems(Tail(items))

Encode(f) ==
    f.tag \o LittleEndian_write_u32(f.size) \o f.ftype \o EncodeItems(f.items)
        \o Zeros(f.slack)

\* An item as written, with any declared size.
RawChunk(id, size, data) ==
    [k |-> "c", id |-> id, size |-> size, data |-> data, childs |-> <<>>]
RawList(type, size, childs) ==
    [k |-> "l", id |-> type, size |-> size, data |-> <<>>, childs |-> childs]

\* A well-formed item: the declared size is the true one, the payload padded.
Chunk(id, data) ==
    RawChunk(id, Len(data), data \o Zeros(Len(data) % 2))
List(type, childs) ==
    RawList(type, 4 + Len(EncodeItems(childs)), childs)

\* The size a well-formed RIFF header declares.
RiffSize(items) == 4 + Len(EncodeItems(items))

Payload(n, seed) == [i \in 1..n |-> seed + i]

SeqsUpTo(set, n) == UNION {[1..k -> set] : k \in 0..n}

TheSource == [bytes |-> file, block |-> block, overflow_checks |-> overflow_checks]

(***************************************************************************)
(* The inputs of the RIFF reader: well-formed and malformed files.         *)
(***************************************************************************)
MaxData == 2          \* payload bytes of a chunk
MaxDecl == 3          \* declared size of a chunk whose payload is missing
MaxListChilds == 2    \* children of a LIST
MaxTop == 2           \* top-level items of a file
MaxSlack == 1         \* bytes after the last item
BlockSize == 8        \* the block of a source whose reads stop at block boundaries

Blocks == {0, BlockSize}

RiffChunkItems ==
    {Chunk(B_JUNK, Payload(n, 0)) : n \in 0..MaxData}
        \cup {RawChunk(B_JUNK, d, <<>>) : d \in 1..MaxDecl}

\* The children of a LIST: chunks of odd size, each followed by its padding byte.
RiffListChildSeqs == SeqsUpTo({Chunk(B_JUNK, Payload(1, 0))}, MaxListChilds)

\* The sizes a LIST header may declare: the true one, two less, two more,
\* and one below the four bytes of the list type.
RiffListSizes(cs) ==
    {List(B_rec, cs).size, List(B_rec, cs).size - 2, List(B_rec, cs).size + 2, 2}

RiffListItems ==
    UNION {{RawList(B_rec, sz, cs) : sz \in RiffListSizes(cs)} : cs \in RiffListChildSeqs}
    \cup {List(B_hdrl, <<List(B_rec, <<Chunk(B_JUNK, Payload(1, 0))>>)>>)}

RiffItems == RiffChunkItems \cup RiffListItems

\* The sizes a RIFF header may declare: the true one, one that takes in the
\* slack, one beyond the end of the source, and one below the file type.
RiffHeaderSizes(its, sl) ==
    {RiffSize(its), RiffSize(its) + sl, RiffSize(its) + 8 + sl + 1, 3}

RiffFiles ==
    UNION {UNION {{[tag |-> B_RIFF, size |-> sz, ftype |-> B_AVI, items |-> its,
                    slack |-> sl] : sz \in RiffHeaderSizes(its, sl)} :
                  sl \in 0..MaxSlack} :
           its \in SeqsUpTo(RiffItems, MaxTop)}
    \cup {[tag |-> B_RIFX, size |-> RiffSize(its), ftype |-> B_AVI, items |-> its,
           slack |-> 0] : its \in SeqsUpTo(RiffChunkItems, 1)}

(***************************************************************************)
(* The state machine.                                                      *)
(***************************************************************************)
NotRun == [err |-> "NotRun", header |-> NoHeader, childs |-> <<>>, pos |-> 0, io |-> <<>>]
NoAvi  == [kind |-> "none", err |-> "None", header |-> <<>>, riff_tree |-> <<>>,
           movi |-> <<>>, recs |-> <<>>, pos |-> 0]
NoCall == [op |-> "none", chunk |-> <<>>, record_list_index |-> 0, buf0 |-> <<>>,
           err |-> "None", buf |-> <<>>, slices |-> <<>>, io |-> <<>>]

NoIndex == [err |-> "NotRun", v |-> 0]
NoWave == [step |-> "none", err |-> "None", v |-> <<>>]
NoCodec ==
    [type |-> "none", order |-> "none", u32 |-> <<0, 0>>, i32 |-> 0, offset |-> 0,
     buf |-> <<>>, out_u32 |-> <<0, 0>>, out_i32 |-> 0, step |-> "none"]

RiffOutcome(t) ==
    [err |-> t.err, header |-> t.header, childs |-> t.childs,
     pos |-> t.r.pos, io |-> t.r.io]

\* RiffTree::read on the byte source.
Read ==
    LET t == RiffTree_read(TheSource, [pos |-> cursor, io |-> <<>>]) IN
    /\ riff' = RiffOutcome(t)
    /\ cursor' = t.r.pos
    /\ UNCHANGED <<file, block, overflow_checks, riff_async, avi, call, calls, chunk_id,
                 parsed_index, codec, wave>>

\* RiffTree::read_async on the byte source.
ReadAsync ==
    LET t == RiffTree_read_async(TheSource, [pos |-> cursor, io |-> <<>>]) IN
    /\ riff_async' = RiffOutcome(t)
    /\ cursor' = t.r.pos
    /\ UNCHANGED <<file, block, overflow_checks, riff, avi, call, calls, chunk_id,
                 parsed_index, codec, wave>>

InitRiff ==
    /\ file \in {Encode(f) : f \in RiffFiles}
    /\ block \in Blocks
    /\ overflow_checks \in BOOLEAN
    /\ cursor = 0
    /\ riff = NotRun
    /\ riff_async = NotRun
    /\ avi = NoAvi
    /\ call = NoCall
    /\ calls = 0
    /\ chunk_id = 0
    /\ parsed_index = NoIndex
    /\ codec = NoCodec
    /\ wave = NoWave

NextRiff == Read \/ ReadAsync

SpecRiff == InitRiff /\ [][NextRiff]_vars

(***************************************************************************)
(* AviUtil::parse_stream_index on the FourCCs of movi chunks.  The first   *)
(* two bytes range over digits, their neighbours in ASCII, signs, a space, *)
(* letters and bytes that are not ASCII; a FourCC is kept as a u32 below   *)
(* 2^31, so that its first byte is ASCII.                                  *)
(***************************************************************************)
FirstBytes == {32, 43, 45, 47, 48, 49, 53, 57, 58, 88, 120, 127}
SecondBytes == FirstBytes \cup {128, 169, 200, 255}

ParseStreamIndex ==
    /\ parsed_index = NoIndex
    /\ codec = NoCodec
    /\ wave = NoWave
    /\ parsed_index' = parse_stream_index(chunk_id)
    /\ UNCHANGED <<file, block, overflow_checks, cursor, riff, riff_async, avi, call,
                   calls, chunk_id, codec, wave>>

InitIndex ==
    /\ chunk_id \in {FourCC_from_bytes(<<b0, b1, 119, 98>>) : b0 \in FirstBytes, b1 \in SecondBytes}
    /\ parsed_index = NoIndex
    /\ codec = NoCodec
    /\ wave = NoWave
    /\ file = <<>>
    /\ block = 0
    /\ overflow_checks = TRUE
    /\ cursor = 0
    /\ riff = NotRun
    /\ riff_async = NotRun
    /\ avi = NoAvi
    /\ call = NoCall
    /\ calls = 0

NextIndex == ParseStreamIndex

SpecIndex == InitIndex /\ [][NextIndex]_vars

(***************************************************************************)
(* bytes.rs: a value is written into a buffer at an offset and read back.  *)
(* The values are the ends of the ranges, the values around the sign bit   *)
(* and around the byte borders, and the values of the tests.               *)
(***************************************************************************)
MaxOffset == 2        \* offsets of the four bytes in the buffer

U32Values ==
    {<<0, 0>>, <<0, 1>>, <<0, 255>>, <<0, 256>>, <<0, 65535>>, <<1, 0>>, <<255, 65535>>,
     <<256, 0>>, <<665, 27390>>, <<32767, 65535>>, <<32768, 0>>, <<43690, 21845>>,
     <<65280, 255>>, <<65535, 65535>>}

I32Values ==
    {0, 1, -1, 255, 256, -255, -256, 65535, -65536, 16777216, -16777217, 43608830,
     -43608830, 2147483647, -2147483647, -2147483647 - 1}

CodecWrite ==
    /\ codec.step = "value"
    /\ codec' = [codec EXCEPT
                    !.step = "written",
                    !.buf = CASE codec.type = "u32" /\ codec.order = "le" ->
                                     LittleEndian_write_u32_at(codec.u32, codec.buf, codec.offset)
                              [] codec.type = "u32" /\ codec.order = "be" ->
                                     BigEndian_write_u32_at(codec.u32, codec.buf, codec.offset)
                              [] codec.type = "i32" /\ codec.order = "le" ->
                                     LittleEndian_write_i32_at(codec.i32, codec.buf, codec.offset)
                              [] codec.type = "i32" /\ codec.order = "be" ->
                                     BigEndian_write_i32_at(codec.i32, codec.buf, codec.offset)]
    /\ UNCHANGED <<file, block, overflow_checks, cursor, riff, riff_async, avi, call,
                   calls, chunk_id, parsed_index, wave>>

CodecRead ==
    /\ codec.step = "written"
    /\ codec' = [codec EXCEPT
                    !.step = "read",
                    !.out_u32 = CASE codec.type = "u32" /\ codec.order = "le" ->
                                         LittleEndian_read_u32_halves(codec.buf, codec.offset)
                                  [] codec.type = "u32" /\ codec.order = "be" ->
                                         BigEndian_read_u32_halves(codec.buf, codec.offset)
                                  [] OTHER -> codec.out_u32,
                    !.out_i32 = CASE codec.type = "i32" /\ codec.order = "le" ->
                                         LittleEndian_read_i32(codec.buf, codec.offset)
                                  [] codec.type = "i32" /\ codec.order = "be" ->
                                         BigEndian_read_i32(codec.buf, codec.offset)
                                  [] OTHER -> codec.out_i32]
    /\ UNCHANGED <<file, block, overflow_checks, cursor, riff, riff_async, avi, call,
                   calls, chunk_id, parsed_index, wave>>

InitBytes ==
    /\ codec \in {[type |-> "u32", order |-> o, u32 |-> n, i32 |-> 0, offset |-> k,
                    buf |-> [i \in 1..(MaxOffset + 4) |-> 170],
                    out_u32 |-> <<0, 0>>, out_i32 |-> 0, step |-> "value"] :
                      o \in {"le", "be"}, n \in U32Values, k \in 0..MaxOffset}
                  \cup {[type |-> "i32", order |-> o, u32 |-> <<0, 0>>, i32 |-> n, offset |-> k,
                         buf |-> [i \in 1..(MaxOffset + 4) |-> 170],
                         out_u32 |-> <<0, 0>>, out_i32 |-> 0, step |-> "value"] :
                           o \in {"le", "be"}, n \in I32Values, k \in 0..MaxOffset}
    /\ chunk_id = 0
    /\ parsed_index = NoIndex
    /\ file = <<>>
    /\ block = 0
    /\ overflow_checks = TRUE
    /\ cursor = 0
    /\ riff = NotRun
    /\ riff_async = NotRun
    /\ avi = NoAvi
    /\ call = NoCall
    /\ calls = 0
    /\ wave = NoWave

NextBytes == CodecWrite \/ CodecRead

SpecBytes == InitBytes /\ [][NextBytes]_vars

(***************************************************************************)
(* lib.rs: AviWaveInfoExt::read_async on a byte source that stands at the  *)
(* first byte of an audio strf payload.  The payloads differ in their      *)
(* format tag and in how much follows the 16 bytes every format has.       *)
(***************************************************************************)
FormatTags == {0, WAVE_FORMAT_PCM, 2, 85, 255, 256, WAVE_FORMAT_EXTENSIBLE, 65535}

\* What follows the 16 bytes: nothing, half a cb_size, a cb_size, and a
\* cb_size with an extension block that is short, exact or long.
StrfTails ==
    {<<>>, <<22>>, <<22, 0>>, <<22, 0>> \o Payload(SizeOf_AviWaveExtraInfo - 1, 0),
     <<22, 0>> \o Payload(SizeOf_AviWaveExtraInfo, 0),
     <<22, 0>> \o Payload(SizeOf_AviWaveExtraInfo + 2, 0)}

StrfWave(tag, tail) ==
    <<tag % 256, tag \div 256, 2, 0, 68, 172, 0, 0, 16, 177, 2, 0, 4, 0, 16, 0>> \o tail

DecodeWave ==
    /\ wave.step = "strf"
    /\ LET w == AviWaveInfoExt_read_async(TheSource, [pos |-> cursor, io |-> <<>>]) IN
       /\ wave' = [step |-> "decoded", err |-> w.err, v |-> w.v]
       /\ cursor' = w.r.pos
    /\ UNCHANGED <<file, block, overflow_checks, riff, riff_async, avi, call, calls,
                   chunk_id, parsed_index, codec>>

InitWave ==
    /\ file \in {StrfWave(tag, tail) : tag \in FormatTags, tail \in StrfTails}
    /\ block \in Blocks
    /\ overflow_checks \in BOOLEAN
    /\ wave = [step |-> "strf", err |-> "None", v |-> <<>>]
    /\ cursor = 0
    /\ riff = NotRun
    /\ riff_async = NotRun
    /\ avi = NoAvi
    /\ call = NoCall
    /\ calls = 0
    /\ chunk_id = 0
    /\ parsed_index = NoIndex
    /\ codec = NoCodec

NextWave == DecodeWave

SpecWave == InitWave /\ [][NextWave]_vars

(***************************************************************************)
(* The inputs of the AVI reader.                                           *)
(***************************************************************************)
MaxTopAvi == 4        \* top-level items of a file whose top level is scanned
MaxMovi == 2          \* children of the movi list
MaxRecChilds == 2     \* children of a record list
MaxCalls == 1         \* random-access calls made on one reader

B_00wb == <<48, 48, 119, 98>>
B_01dc == <<48, 49, 100, 99>>
B_07wb == <<48, 55, 119, 98>>
B_p0wb == <<43, 48, 119, 98>>      \* "+0wb"
B_Xxwb == <<88, 120, 119, 98>>
B_0hwb == <<48, 200, 119, 98>>     \* '0', then a byte that is not ASCII

AvihData(streams, reserved) ==
    [i \in 1..56 |-> CASE i = 1 -> 33 [] i = 25 -> streams [] i = 33 -> 64
                       [] i = 37 -> 48 [] i = 41 -> reserved [] OTHER -> 0]
StrhData(type) ==
    [i \in 1..56 |-> CASE i \in 1..4 -> type[i] [] i = 21 -> 1 [] i = 25 -> 25
                       [] OTHER -> 0]
StrfAudioData == <<1, 0, 2, 0, 68, 172, 0, 0, 16, 177, 2, 0, 4, 0, 16, 0>>
StrfVideoData ==
    [i \in 1..40 |-> CASE i = 1 -> 40 [] i = 5 -> 64 [] i = 9 -> 48 [] i = 13 -> 1
                       [] i = 15 -> 24 [] OTHER -> 0]

StrlAudio == List(B_strl, <<Chunk(B_strh, StrhData(B_auds)), Chunk(B_strf, StrfAudioData)>>)
StrlVideo == List(B_strl, <<Chunk(B_strh, StrhData(B_vids)), Chunk(B_strf, StrfVideoData)>>)

HdrlA   == List(B_hdrl, <<Chunk(B_avih, AvihData(1, 0)), StrlAudio>>)
HdrlAV  == List(B_hdrl, <<Chunk(B_avih, AvihData(2, 0)), StrlAudio, StrlVideo>>)
\* An hdrl whose main header has a reserved word that is not zero.
HdrlBad == List(B_hdrl, <<Chunk(B_avih, AvihData(1, 7)), StrlAudio>>)

Junk == Chunk(B_JUNK, Payload(2, 0))

\* An hdrl whose first child is no avih chunk, or an avih chunk of another size.
HdrlJunkFirst == List(B_hdrl, <<Chunk(B_JUNK, AvihData(1, 0)), StrlAudio>>)
HdrlStrlFirst == List(B_hdrl, <<List(B_strl, <<Chunk(B_JUNK, Zeros(48))>>), StrlAudio>>)
HdrlShortAvih == List(B_hdrl, <<Chunk(B_avih, Zeros(54)), StrlAudio>>)
HdrlLongAvih  == List(B_hdrl, <<Chunk(B_avih, AvihData(1, 0) \o <<0, 0>>), StrlAudio>>)
HdrlNoStrl    == List(B_hdrl, <<Chunk(B_avih, AvihData(0, 0))>>)

\* An hdrl without children: a list of list_size 4, a leaf chunk.
HdrlEmpty == List(B_hdrl, <<>>)
HdrlLeaf  == Chunk(B_hdrl, Payload(2, 0))

\* strl lists with a third and a fourth child.
Strl3(type, strf, last) ==
    List(B_strl, <<Chunk(B_strh, StrhData(type)), Chunk(B_strf, strf), last>>)
Strl4(type, strf, third, fourth) ==
    List(B_strl, <<Chunk(B_strh, StrhData(type)), Chunk(B_strf, strf), third, fourth>>)

Strd == Chunk(B_strd, Payload(4, 120))
Strn == Chunk(B_strn, Payload(3, 130))

StrlItems ==
    {StrlAudio, StrlVideo,
     Strl3(B_auds, StrfAudioData, Strd), Strl3(B_auds, StrfAudioData, Strn),
     Strl3(B_vids, StrfVideoData, Strd), Strl3(B_vids, StrfVideoData, Strn),
     Strl3(B_vids, StrfVideoData, Junk),
     Strl4(B_auds, StrfAudioData, Strd, Strn), Strl4(B_vids, StrfVideoData, Strd, Strn),
     Strl4(B_vids, StrfVideoData, Strn, Strd),
     List(B_strl, <<Chunk(B_strh, StrhData(B_auds))>>),
     Strl3(B_JUNK, StrfAudioData, Strd)}

HdrlItems ==
    {HdrlJunkFirst, HdrlStrlFirst, HdrlShortAvih, HdrlLongAvih, HdrlNoStrl, HdrlEmpty,
     HdrlLeaf}
        \cup {List(B_hdrl, <<Chunk(B_avih, AvihData(1, 0)), l>>) : l \in StrlItems}
        \cup {List(B_hdrl, <<Chunk(B_avih, AvihData(2, 0)), StrlAudio, l>>) : l \in StrlItems}

Idx1 == Chunk(B_idx1, <<>>)

MoviChunkItems ==
    {Chunk(B_00wb, Payload(3, 10)), Chunk(B_01dc, Payload(2, 20)),
     Chunk(B_p0wb, Payload(1, 30)), Chunk(B_Xxwb, Payload(1, 40)),
     Chunk(B_0hwb, Payload(1, 50)), Chunk(B_07wb, Payload(1, 60)),
     Chunk(B_00wb, Payload(9, 70))}

RecChildItems ==
    {Chunk(B_00wb, Payload(3, 80)), Chunk(B_01dc, Payload(2, 90))}

RecItems ==
    {List(B_rec, cs) : cs \in SeqsUpTo(RecChildItems, MaxRecChilds)}
        \cup {List(B_rec, <<List(B_rec, <<Chunk(B_00wb, Payload(1, 110))>>)>>),
              List(B_rec, <<List(B_rec, <<>>)>>)}

\* Lists that are no record lists: another list type, or a media chunk's id.
OtherListItems ==
    {List(B_strl, <<Chunk(B_00wb, Payload(1, 140))>>), List(B_00wb, <<>>)}

MoviItems == MoviChunkItems \cup RecItems \cup OtherListItems

MoviOne == List(B_movi, <<Chunk(B_00wb, Payload(3, 10))>>)

TopItems == {HdrlA, HdrlBad, MoviOne, Idx1, Junk}

AviFile(ftype, items, sl) ==
    [tag |-> B_RIFF, size |-> RiffSize(items), ftype |-> ftype, items |-> items,
     slack |-> sl]

\* Files that differ in their top level.
ScanFiles ==
    {AviFile(B_AVI, its, sl) : its \in SeqsUpTo(TopItems, MaxTopAvi), sl \in 0..MaxSlack}
        \cup {AviFile(B_WAVE, its, 1) : its \in SeqsUpTo(TopItems, 2)}

\* Files that differ in their movi list.
MoviFiles ==
    {AviFile(B_AVI, <<h, List(B_movi, ms), Idx1>>, 0) :
        h \in {HdrlA, HdrlAV}, ms \in SeqsUpTo(MoviItems, MaxMovi)}

\* Files that differ in their hdrl list.
HdrlFiles ==
    {AviFile(B_AVI, <<h, MoviOne>>, sl) : h \in HdrlItems, sl \in 0..MaxSlack}

(***************************************************************************)
(* The AVI reader's state machine.                                         *)
(***************************************************************************)
Fill(n) == [i \in 1..n |-> 170]

\* AviAsyncReader::read_header takes the byte source for itself: once.
ReadHeader ==
    /\ avi.kind = "none"
    /\ LET a == read_header(TheSource, [pos |-> cursor, io |-> <<>>]) IN
       /\ avi' = a
       /\ cursor' = a.pos
    /\ UNCHANGED <<file, block, overflow_checks, riff, riff_async, call, calls, chunk_id,
                 parsed_index, codec, wave>>

\* The buffer lengths a caller tries for a chunk: one short, exact, one more.
\* A panic ends the program: no call follows one.
ChunkBufLens(c) == {n \in {c.chunk.ck_size - 1, c.chunk.ck_size, c.chunk.ck_size + 1} : n >= 0}

ReadStandaloneChunk ==
    /\ avi.kind = "reader"
    /\ call.err # "Panic"
    /\ calls < MaxCalls
    /\ calls' = calls + 1
    /\ \E s \in 1..Len(avi.movi) : \E i \in 1..Len(avi.movi[s].chunks) :
         LET c == avi.movi[s].chunks[i] IN
         \E n \in ChunkBufLens(c) :
           LET res == read_standalone_chunk(TheSource, [pos |-> cursor, io |-> <<>>],
                                            c, Fill(n))
           IN /\ call' = [op |-> "read_standalone_chunk", chunk |-> c,
                          record_list_index |-> 0, buf0 |-> Fill(n), err |-> res.err,
                          buf |-> res.buf, slices |-> res.slices, io |-> res.r.io]
              /\ cursor' = res.r.pos
    /\ UNCHANGED <<file, block, overflow_checks, riff, riff_async, avi, chunk_id,
                 parsed_index, codec, wave>>

\* The buffer lengths a caller tries for a record list: none, the list's
\* payload less its last byte, the payload, and more than the source holds.
RecordBufLens(recs, k) ==
    IF k < Len(recs)
    THEN LET ds == recs[k + 1].header.list_size - 4 IN
         {n \in {0, ds - 1, ds, ds + 16} : n >= 0}
    ELSE {0}

ReadRecordList ==
    /\ avi.kind = "reader"
    /\ call.err # "Panic"
    /\ calls < MaxCalls
    /\ calls' = calls + 1
    /\ \E k \in 0..Len(avi.recs) : \E n \in RecordBufLens(avi.recs, k) :
         LET res == read_record_list(TheSource, [pos |-> cursor, io |-> <<>>],
                                     avi.recs, k, Fill(n))
         IN /\ call' = [op |-> "read_record_list", chunk |-> <<>>,
                        record_list_index |-> k, buf0 |-> Fill(n), err |-> res.err,
                        buf |-> res.buf, slices |-> res.slices, io |-> res.r.io]
            /\ cursor' = res.r.pos
    /\ UNCHANGED <<file, block, overflow_checks, riff, riff_async, avi, chunk_id,
                 parsed_index, codec, wave>>

\* The files of MoviFiles and of HdrlFiles hold no LIST whose size is below 4, the one place
\* where the two builds differ: they are read by the build that checks.
Init ==
    /\ \/ file \in {Encode(f) : f \in ScanFiles} /\ overflow_checks \in BOOLEAN
       \/ file \in {Encode(f) : f \in MoviFiles \cup HdrlFiles} /\ overflow_checks = TRUE
    /\ block \in Blocks
    /\ cursor = 0
    /\ riff = NotRun
    /\ riff_async = NotRun
    /\ avi = NoAvi
    /\ call = NoCall
    /\ calls = 0
    /\ chunk_id = 0
    /\ parsed_index = NoIndex
    /\ codec = NoCodec
    /\ wave = NoWave

Next == ReadHeader \/ ReadStandaloneChunk \/ ReadRecordList

Spec == Init /\ [][Next]_vars

(***************************************************************************)
(* The properties of the RIFF reader, under SpecRiff.                      *)
(***************************************************************************)
\* Every node of a forest, at any depth.
RECURSIVE NodesOf(_)
NodesOf(childs) ==
    UNION {{childs[i]} \cup NodesOf(childs[i].childs) : i \in 1..Len(childs)}

\* The outcomes that carry a tree.
Trees == {t \in {riff, riff_async} : t.err = "None"}

\* C1: in a tree that RiffTree::read or read_async returns, every chunk node
\* lies within the byte source: data_pos + data_size <= L and
\* data_pos + data_size + padding <= L, L the length of the source.
C1_ChunksWithinSource ==
    \A t \in Trees : \A n \in NodesOf(t.childs) :
        n.kind = "chunk" =>
            /\ RiffNode_data_pos(n) + RiffNode_data_size(n) <= Len(file)
            /\ RiffNode_data_pos(n) + RiffNode_data_size(n) + RiffNode_padding(n) <= Len(file)

\* C2: on one byte source RiffTree::read and RiffTree::read_async make the
\* same seeks and reads in the same order and end alike: the same error, or
\* the same header and the same tree, node for node.
C2_ReadEqualsReadAsync ==
    (riff.err # "NotRun" /\ riff_async.err # "NotRun") =>
        /\ riff.io = riff_async.io
        /\ riff.err = riff_async.err
        /\ riff.header = riff_async.header
        /\ riff.childs = riff_async.childs
        /\ riff.pos = riff_async.pos

\* Both entry points returned a tree with a list that has children, from a
\* source that delivers reads in pieces.
C2_Witness ==
    /\ riff.err = "None"
    /\ riff_async.err = "None"
    /\ block # 0
    /\ \E n \in NodesOf(riff_async.childs) : n.kind = "list" /\ Len(n.childs) > 0

(***************************************************************************)
(* The properties of parse_stream_index, under SpecIndex.                  *)
(***************************************************************************)
\* The index that two ASCII digits d1 d2 at the head of a FourCC encode.
HasTwoDigits(id) ==
    LET b == FourCC_into_bytes(id) IN b[1] \in 48..57 /\ b[2] \in 48..57

EncodedIndex(id) ==
    LET b == FourCC_into_bytes(id) IN 10 * (b[1] - 48) + (b[2] - 48)

\* C5: parse_stream_index returns 10*d1 + d2 for a FourCC whose first two
\* bytes are the ASCII digits d1 d2, and fails for every other first two
\* bytes: letters, signs such as '+', spaces, bytes that are not ASCII.
C5_TwoDigitsOrFailure ==
    parsed_index.err # "NotRun" =>
        IF HasTwoDigits(chunk_id)
        THEN parsed_index = [err |-> "None", v |-> EncodedIndex(chunk_id)]
        ELSE parsed_index.err # "None"

(***************************************************************************)
(* The properties of the AVI reader, under Spec.                           *)
(***************************************************************************)
\* The movi list of the tree a reader holds, and its leaf chunks: those that
\* stand in movi and those that stand in a list of movi.
MoviNode ==
    CHOOSE n \in {avi.riff_tree.childs[i] : i \in 1..Len(avi.riff_tree.childs)} :
        RiffNode_id(n) = MOVI_TYPE

MoviLeaves ==
    LET mc == RiffNode_childs(MoviNode) IN
    {<<i, 0>> : i \in {i \in 1..Len(mc) : mc[i].kind = "chunk"}}
        \cup UNION {{<<i, j>> : j \in {j \in 1..Len(mc[i].childs) :
                                          mc[i].childs[j].kind = "chunk"}} :
                    i \in {i \in 1..Len(mc) : mc[i].kind = "list"}}

MoviLeaf(l) ==
    LET mc == RiffNode_childs(MoviNode) IN
    IF l[2] = 0 THEN mc[l[1]] ELSE mc[l[1]].childs[l[2]]

\* The entries of the catalog: stream s (from 1), place i in its chunk list.
Catalogued == {<<s, i>> \in (1..Len(avi.movi)) \X (1..MaxMovi * MaxRecChilds + 1) :
                   i <= Len(avi.movi[s].chunks)}

Entry(e) == avi.movi[e[1]].chunks[e[2]]

\* C3: after a successful read_header the catalog has as many entries as the
\* movi list has leaf chunks, in movi or in its record lists; every leaf
\* chunk has exactly one entry, and that entry stands under the stream whose
\* index the two digits of its FourCC encode.
C3_CatalogIsTheLeaves ==
    avi.kind = "reader" =>
        /\ Cardinality(Catalogued) = Cardinality(MoviLeaves)
        /\ \A l \in MoviLeaves :
             Cardinality({e \in Catalogued :
                             Entry(e).chunk = RiffChunk_header(MoviLeaf(l))}) = 1
        /\ \A e \in Catalogued :
             /\ HasTwoDigits(Entry(e).chunk.ck_id)
             /\ EncodedIndex(Entry(e).chunk.ck_id) = avi.movi[e[1]].index
             /\ Entry(e).stream_index = avi.movi[e[1]].index

TopTree == RiffTree_read_async(TheSource, [pos |-> 0, io |-> <<>>])

TopIds(t) == [i \in 1..Len(t.childs) |-> RiffNode_id(t.childs[i])]

Count(ids, id) == Cardinality({i \in DOMAIN ids : ids[i] = id})

\* read_header was called on a RIFF file of type AVI whose tree t reads well.
HeaderOfAviTree(t) ==
    /\ avi.kind # "none"
    /\ t.err = "None"
    /\ t.header.file_type = AVI_FILE_TYPE

\* The ids that occur twice or more, and where an id occurs for the second time.
Duplicated(ids) == {id \in {HDRL_TYPE, MOVI_TYPE, IDX1_TYPE} : Count(ids, id) >= 2}

SecondAt(ids, id) ==
    CHOOSE j \in DOMAIN ids :
        ids[j] = id /\ Cardinality({i \in 1..(j - 1) : ids[i] = id}) = 1

FirstDuplicated(ids) ==
    CHOOSE id \in Duplicated(ids) :
        \A o \in Duplicated(ids) : SecondAt(ids, id) <= SecondAt(ids, o)

DuplicateError(id) ==
    IF id = HDRL_TYPE THEN "DuplicateHdrlList"
    ELSE IF id = MOVI_TYPE THEN "DuplicateMoviList"
    ELSE "DuplicateIdx1Chunk"

\* C6, as stated: read_header returns a reader only if hdrl, movi and idx1
\* each occur at most once at the top level; a second hdrl gives
\* DuplicateHdrlList, a second movi DuplicateMoviList, a second idx1
\* DuplicateIdx1Chunk, whatever the order and whatever else is in the file.
C6_EverySecondOccurrenceIsReported ==
    LET t == TopTree
        ids == TopIds(t)
    IN  HeaderOfAviTree(t) =>
            /\ avi.kind = "reader" => Duplicated(ids) = {}
            /\ Count(ids, HDRL_TYPE) >= 2 => avi.err = "DuplicateHdrlList"
            /\ Count(ids, MOVI_TYPE) >= 2 => avi.err = "DuplicateMoviList"
            /\ Count(ids, IDX1_TYPE) >= 2 => avi.err = "DuplicateIdx1Chunk"

\* C6, amended: read_header returns a reader only if hdrl, movi and idx1 each
\* occur at most once at the top level; when some of them occur twice, the
\* error is the Duplicate error of the id whose second occurrence comes
\* first in the order of the children.
C6_FirstSecondOccurrenceIsReported ==
    LET t == TopTree
        ids == TopIds(t)
    IN  HeaderOfAviTree(t) =>
            /\ avi.kind = "reader" => Duplicated(ids) = {}
            /\ Duplicated(ids) # {} => avi.err = DuplicateError(FirstDuplicated(ids))

\* Two hdrl and two movi at the top level, the second movi before the
\* second hdrl: the error names movi.
C6_Witness ==
    /\ avi.err = "DuplicateMoviList"
    /\ LET t == TopTree
           ids == TopIds(t)
       IN  /\ HeaderOfAviTree(t)
           /\ Count(ids, HDRL_TYPE) >= 2
           /\ Count(ids, MOVI_TYPE) >= 2
           /\ SecondAt(ids, MOVI_TYPE) < SecondAt(ids, HDRL_TYPE)

\* The top level holds one hdrl, and "Parsing hdrl" accepts it.
ValidHdrl(t, ids) ==
    /\ Count(ids, HDRL_TYPE) = 1
    /\ parse_hdrl(TheSource, t.r,
                  t.childs[CHOOSE i \in DOMAIN ids : ids[i] = HDRL_TYPE]).err = "None"

\* C7, as stated: read_header returns no reader for an AVI tree without a
\* top-level hdrl or without a top-level movi; without hdrl the error is
\* HdrlNotFound, with a valid hdrl and without movi it is MoviNotFound.
C7_MissingListIsReported ==
    LET t == TopTree
        ids == TopIds(t)
    IN  HeaderOfAviTree(t) =>
            /\ (Count(ids, HDRL_TYPE) = 0 \/ Count(ids, MOVI_TYPE) = 0)
                   => avi.kind # "reader"
            /\ Count(ids, HDRL_TYPE) = 0 => avi.err = "HdrlNotFound"
            /\ (Count(ids, MOVI_TYPE) = 0 /\ ValidHdrl(t, ids))
                   => avi.err = "MoviNotFound"

\* C7, amended: read_header returns no reader for an AVI tree without a
\* top-level hdrl or without a top-level movi; when no id occurs twice at
\* the top level, the error is HdrlNotFound without hdrl, and MoviNotFound
\* with a valid hdrl and without movi.
C7_MissingListIsReportedUnlessDuplicate ==
    LET t == TopTree
        ids == TopIds(t)
    IN  HeaderOfAviTree(t) =>
            /\ (Count(ids, HDRL_TYPE) = 0 \/ Count(ids, MOVI_TYPE) = 0)
                   => avi.kind # "reader"
            /\ (Count(ids, HDRL_TYPE) = 0 /\ Duplicated(ids) = {})
                   => avi.err = "HdrlNotFound"
            /\ (Count(ids, MOVI_TYPE) = 0 /\ Duplicated(ids) = {} /\ ValidHdrl(t, ids))
                   => avi.err = "MoviNotFound"

\* A valid hdrl, an idx1 and no movi: MoviNotFound.
C7_Witness ==
    /\ avi.err = "MoviNotFound"
    /\ LET t == TopTree
           ids == TopIds(t)
       IN  /\ HeaderOfAviTree(t)
           /\ Count(ids, MOVI_TYPE) = 0
           /\ Count(ids, IDX1_TYPE) = 1
           /\ ValidHdrl(t, ids)

\* C8: read_standalone_chunk on a chunk whose rec_index is Some(_) returns
\* ChunkInRecordList and makes no seek and no read: the cursor of the byte
\* source and the caller's buffer are as they were.
C8_RecordChunkIsRejected ==
    [][(/\ calls' = calls + 1
        /\ call'.op = "read_standalone_chunk"
        /\ call'.chunk.rec_index.some)
       => (/\ call'.err = "ChunkInRecordList"
           /\ call'.io = <<>>
           /\ cursor' = cursor
           /\ call'.buf = call'.buf0)]_vars

\* read_standalone_chunk was called on a chunk of a record list, with a
\* buffer that has room, the cursor away from the chunk's payload.
C8_Witness ==
    /\ call.op = "read_standalone_chunk"
    /\ call.chunk.rec_index.some
    /\ call.err = "ChunkInRecordList"
    /\ Len(call.buf0) >= call.chunk.chunk.ck_size
    /\ cursor # call.chunk.chunk.data_pos

C10_SlicesAreThePayloads ==
    (call.op = "read_record_list" /\ call.err = "None") =>
        LET records == avi.recs[call.record_list_index + 1] IN
        /\ Len(call.slices) = Len(records.childs)
        /\ \A i \in 1..Len(records.childs) :
             LET c   == records.childs[i]
                 off == c.data_pos - records.header.data_pos
             IN  /\ call.slices[i].from = off
                 /\ call.slices[i].to = off + c.ck_size
                 /\ call.slices[i].bytes = SubSeq(call.buf, off + 1, off + c.ck_size)
                 /\ call.slices[i].bytes = Slice(file, c.data_pos, c.ck_size)

\* read_record_list returned the two slices of a record list of two
\* children, from a source that delivers reads in pieces.
C10_Witness ==
    /\ call.op = "read_record_list"
    /\ call.err = "None"
    /\ block # 0
    /\ Len(call.slices) = 2
    /\ call.slices[2].from > call.slices[1].to
    /\ Len(call.slices[2].bytes) > 0

(***************************************************************************)
(* The properties of the codecs of bytes.rs, under SpecBytes.              *)
(***************************************************************************)
\* C11: a 32-bit value written into a buffer at an offset that fits and read
\* back from there is the value that was written: read_u32 after write_u32
\* and read_i32 after write_i32, negative values too, in both byte orders.
C11_ReadReturnsWhatWasWritten ==
    codec.step = "read" => codec.out_u32 = codec.u32 /\ codec.out_i32 = codec.i32

\* A u32 from 2^31 on and a negative i32 went through, at an offset above 0.
C11_Witness ==
    /\ codec.step = "read"
    /\ codec.offset > 0
    /\ \/ codec.type = "u32" /\ codec.u32[1] >= 32768 /\ codec.u32[2] > 0
       \/ codec.type = "i32" /\ codec.i32 < -65536
    /\ codec.buf[1] = 170

(***************************************************************************)
(* The properties of "Parsing hdrl", under Spec.                           *)
(***************************************************************************)
\* The node that read_header took for hdrl, in the tree of the reader.
HdrlNode ==
    CHOOSE n \in {avi.riff_tree.childs[i] : i \in 1..Len(avi.riff_tree.childs)} :
        RiffNode_id(n) = HDRL_TYPE

\* C12: read_header returns a reader only if the first child of hdrl is a
\* chunk with the id avih and the declared size 56; an hdrl whose first child
\* has another id (a JUNK chunk of 56 bytes, a strl list) is rejected.
C12_FirstChildIsTheMainHeader ==
    avi.kind = "reader" =>
        /\ RiffNode_childs(HdrlNode) # <<>>
        /\ LET avih == RiffNode_childs(HdrlNode)[1] IN
           /\ avih.kind = "chunk"
           /\ RiffNode_id(avih) = AVIH_TYPE
           /\ avih.size = SizeOf_AviMainHeader

\* The hdrl node of the tree t, and the nodes after its first child.
HdrlOf(t) == t.childs[CHOOSE i \in 1..Len(t.childs) : RiffNode_id(t.childs[i]) = HDRL_TYPE]

StrlsOf(h) == IF RiffNode_childs(h) = <<>> THEN <<>> ELSE Tail(RiffNode_childs(h))

\* The bytes of a chunk in the source: data_size + padding bytes from data_pos.
RawBytes(n) == Slice(file, RiffNode_data_pos(n), RiffNode_data_size(n) + RiffNode_padding(n))

\* A strl whose optional children are not what lib.rs:542-564 asks for.
BadAdditionalData(l) ==
    LET c == RiffNode_childs(l) IN
    \/ Len(c) = 3 /\ RiffNode_id(c[3]) \notin {STRD_TYPE, STRN_TYPE}
    \/ Len(c) = 4 /\ (RiffNode_id(c[3]) # STRD_TYPE \/ RiffNode_id(c[4]) # STRN_TYPE)

\* C13: a strl with exactly three children whose third child is a strd or a
\* strn chunk is accepted, and the third child's raw bytes (data_size +
\* padding bytes) are stored in the strd resp. strn field of the stream item;
\* InvalidStreamAdditionalData is returned only when the third child is
\* neither strd nor strn.
C13_ThirdChildIsStored ==
    LET t == TopTree IN
    (HeaderOfAviTree(t) /\ Count(TopIds(t), HDRL_TYPE) = 1) =>
        LET strls == StrlsOf(HdrlOf(t)) IN
        /\ avi.err = "InvalidStreamAdditionalData" =>
               \E i \in 1..Len(strls) : BadAdditionalData(strls[i])
        /\ avi.kind = "reader" =>
               \A i \in 1..Len(strls) :
                   LET c == RiffNode_childs(strls[i]) IN
                   Len(c) = 3 =>
                       IF RiffNode_id(c[3]) = STRD_TYPE
                       THEN avi.header.strl[i].strd = Some(RawBytes(c[3]))
                       ELSE avi.header.strl[i].strn = Some(RawBytes(c[3]))

(***************************************************************************)
(* The properties of the audio format's decoding, under SpecWave.          *)
(***************************************************************************)
\* C14: decoding an audio strf completes for every value of format_tag, no
\* index goes out of range, and in the AviWaveInfoExt it yields cb_size is
\* present iff format_tag # WAVE_FORMAT_PCM and the extension block is
\* present iff format_tag = WAVE_FORMAT_EXTENSIBLE.
C14_EveryFormatTagDecodes ==
    wave.step = "decoded" =>
        /\ wave.err # "Panic"
        /\ wave.err = "None" =>
               /\ wave.v.format.cb_size.some <=> wave.v.format.w_format_tag # WAVE_FORMAT_PCM
               /\ wave.v.extra.some <=> wave.v.format.w_format_tag = WAVE_FORMAT_EXTENSIBLE
        /\ Len(file) >= SizeOf_AviWaveInfo - SizeOf_OptionU16 + 2 + SizeOf_AviWaveExtraInfo
               => wave.err = "None"

\* The strf of a stream, decoded from the first byte of the payload of c.
StrfAt(strh, c) ==
    LET r == [pos |-> RiffNode_data_pos(c), io |-> <<>>] IN
    IF strh.fcc_type = VIDEO_STREAM_TYPE
    THEN [video |-> Some(AviBitmapInfo_read_async(TheSource, r).v), audio |-> None]
    ELSE [video |-> None, audio |-> Some(AviWaveInfoExt_read_async(TheSource, r).v)]

\* C16: in read_header, when the strf payload of a strl is decoded and when
\* an optional strd or strn payload is read, the cursor of the byte source
\* stands at that child's data_pos; what is read forward without a seek is
\* what a seek to each child's data_pos would give.
C16_CursorStandsAtThePayload ==
    avi.kind = "reader" =>
        \A i \in 1..Len(avi.header.strl) :
            LET it == avi.header.strl[i]
                c == RiffNode_childs(StrlsOf(HdrlNode)[i])
                strd == c[3]
                strn == c[Len(c)]
            IN
            /\ it.strf_cursor = RiffNode_data_pos(c[2])
            /\ it.strf = StrfAt(it.strh, c[2])
            /\ it.strd_cursor.some =>
                   /\ it.strd_cursor.v = RiffNode_data_pos(strd)
                   /\ it.strd = Some(RawBytes(strd))
            /\ it.strn_cursor.some =>
                   /\ it.strn_cursor.v = RiffNode_data_pos(strn)
                   /\ it.strn = Some(RawBytes(strn))

\* C20: read_header ends with one of its errors, and never with an index
\* out of range, when the node found under the id hdrl has no children: an
\* hdrl LIST of list_size 4, or a leaf chunk with the id hdrl.
C20_ChildlessHdrlIsAnError ==
    LET t == TopTree IN
    (HeaderOfAviTree(t) /\ Count(TopIds(t), HDRL_TYPE) = 1
        /\ RiffNode_childs(HdrlOf(t)) = <<>>) => avi.kind = "err"

(***************************************************************************)
(* The properties of "Parse movi list", under Spec.                        *)
(***************************************************************************)
REC_TYPE == FourCC_from_bytes(B_rec)

MoviOf(t) == t.childs[CHOOSE i \in 1..Len(t.childs) : RiffNode_id(t.childs[i]) = MOVI_TYPE]

\* The leaf chunks of movi, in movi itself or in a LIST child of movi.
LeafChunksOf(m) ==
    LET mc == RiffNode_childs(m) IN
    {mc[i] : i \in {i \in 1..Len(mc) : mc[i].kind = "chunk"}}
        \cup UNION {{mc[i].childs[j] : j \in {j \in 1..Len(mc[i].childs) :
                                                 mc[i].childs[j].kind = "chunk"}} :
                    i \in {i \in 1..Len(mc) : mc[i].kind = "list"}}

\* C15: read_header returns a reader only if every LIST child of movi has the
\* list type 'rec ' and only leaf chunks as children; every LIST child of
\* movi, an empty one too, is taken as a record list and never as a media
\* chunk: its id is not parsed for a stream index and it is not cast to a chunk.
C15_ListChildrenAreRecordLists ==
    LET t == TopTree IN
    (HeaderOfAviTree(t) /\ Count(TopIds(t), MOVI_TYPE) = 1) =>
        LET mc == RiffNode_childs(MoviOf(t))
            lists == {i \in 1..Len(mc) : mc[i].kind = "list"}
        IN
        /\ avi.kind = "reader" =>
               /\ \A i \in lists :
                      /\ RiffNode_id(mc[i]) = REC_TYPE
                      /\ \A j \in 1..Len(mc[i].childs) : mc[i].childs[j].kind = "chunk"
               /\ Len(avi.recs) = Cardinality(lists)
        /\ avi.err # "InvalidChunkCast"
        /\ avi.err \in {"ParseIntError", "Utf8Error"} =>
               \E c \in LeafChunksOf(MoviOf(t)) : parse_stream_index(RiffNode_id(c)).err # "None"

(***************************************************************************)
(* The properties of the child loop of riff.rs, under SpecRiff.            *)
(***************************************************************************)
\* The source starts with a RIFF header that RiffTree::read accepts, and a
\* chunk header follows whose payload ends where the source ends.
FirstChunkEndsAtTheEnd ==
    /\ Len(file) >= 20
    /\ BigEndian_read_u32(file, 0) = RIFF_TYPE
    /\ LittleEndian_read_u32(file, 4) > 4
    /\ LittleEndian_read_u32(file, 4) <= Len(file)
    /\ BigEndian_read_u32(file, 12) # LIST_TYPE
    /\ 20 + LittleEndian_read_u32(file, 16) = Len(file)

\* C17: RiffTree::read fails with InvalidChunkHeader on every input that
\* holds a chunk whose payload ends exactly at the end of the source
\* (data_pos + data_size = L), be the chunk the first child of its parent
\* region or a later one: no tree that is returned holds such a chunk.
C17_ChunkEndingAtTheEndIsRejected ==
    /\ riff.err = "None" =>
           \A n \in NodesOf(riff.childs) :
               n.kind = "chunk" =>
                   RiffNode_data_pos(n) + RiffNode_data_size(n) # Len(file)
    /\ (riff.err # "NotRun" /\ FirstChunkEndsAtTheEnd) => riff.err = "InvalidChunkHeader"

\* Where the header of a node starts: 8 bytes before a chunk's payload, 12
\* bytes before the children of a list.
HeaderStart(n) == RiffNode_data_pos(n) - (IF n.kind = "list" THEN 12 ELSE 8)

\* Where the cursor stands when the node is parsed: behind the payload and
\* the padding of a chunk (riff.rs:271), and for a list where the loop over
\* its children ended, behind its last child.
RECURSIVE CursorAfter(_)
CursorAfter(n) ==
    IF n.kind = "chunk"
    THEN RiffNode_data_pos(n) + RiffNode_data_size(n) + RiffNode_padding(n)
    ELSE IF RiffNode_childs(n) = <<>> THEN RiffNode_data_pos(n)
    ELSE CursorAfter(n.childs[Len(n.childs)])

\* C18: in a tree that RiffTree::read returns every child of a list lies in
\* the payload region of the list (its header starts at or behind the list's
\* data_pos, and data_pos + data_size + padding of the child is at most
\* data_pos + data_size of the list), and the parse of the list's children
\* ends with the cursor at data_pos + data_size of the list, where the next
\* sibling of the list is parsed from.
C18_ChildrenLieInTheirList ==
    riff.err = "None" =>
        \A n \in NodesOf(riff.childs) :
            n.kind = "list" =>
                /\ \A i \in 1..Len(n.childs) :
                       LET c == n.childs[i] IN
                       /\ RiffNode_data_pos(n) <= HeaderStart(c)
                       /\ RiffNode_data_pos(c) + RiffNode_data_size(c) + RiffNode_padding(c)
                              <= RiffNode_data_pos(n) + RiffNode_data_size(n)
                /\ CursorAfter(n) = RiffNode_data_pos(n) + RiffNode_data_size(n)

\* The cursor after each seek and read of the trace io, from the cursor pos.
RECURSIVE CursorsOf(_, _, _)
CursorsOf(io, k, pos) ==
    IF k > Len(io) THEN <<>>
    ELSE
    LET op == io[k][1]
        n == io[k][2]
        next == CASE op = "seek_end" -> Len(file)
                  [] op = "seek_start" -> n
                  [] op = "seek_current" -> pos + n
                  [] op = "read" -> pos + Src_delivers(TheSource, pos, n)
                  [] op = "read_exact" -> IF pos + n <= Len(file) THEN pos + n
                                          ELSE Max(pos, Len(file))
    IN  <<next>> \o CursorsOf(io, k + 1, next)

\* The passes of the child loop in the trace: read_fourcc's read at k, and
\* at k + 1 the read_exact of the rest of the header, which succeeds.
HeaderReads(io, at) ==
    {k \in 2..(Len(io) - 1) :
        /\ io[k] = <<"read", 4>>
        /\ io[k + 1][1] = "read_exact"
        /\ at[k] + io[k + 1][2] <= Len(file)}

\* C19: RiffTree::read ends on every finite byte source, with a tree or
\* with an error; every pass of the child loop moves the cursor forward, by
\* at least 8 bytes for the header of a chunk and by at least 12 for the
\* header of a list, so that no pass and no descent into the children of a
\* list goes without bytes of the source being consumed.
C19_EveryPassConsumesAHeader ==
    riff.err # "NotRun" =>
        LET at == CursorsOf(riff.io, 1, 0) IN
        \A k \in HeaderReads(riff.io, at) :
            at[k + 1] - at[k - 1] >= 4 + riff.io[k + 1][2]

\* The source starts with a RIFF header that RiffTree::read accepts, and a
\* LIST header follows whose list_size is below the 4 bytes of the list type.
FirstListIsShort ==
    /\ Len(file) >= 24
    /\ BigEndian_read_u32(file, 0) = RIFF_TYPE
    /\ LittleEndian_read_u32(file, 4) > 4
    /\ LittleEndian_read_u32(file, 4) <= Len(file)
    /\ BigEndian_read_u32(file, 12) = LIST_TYPE
    /\ LittleEndian_read_u32(file, 16) < 4

\* C21: RiffTree::read rejects a LIST header whose list_size is below 4 with
\* InvalidListHeader before list_size - 4 is computed; the subtraction in u32
\* never underflows, neither for the child region handed to the recursion
\* nor in data_size() of a list node of a tree that is returned.
C21_ShortListIsRejected ==
    /\ riff.err # "Panic"
    /\ (riff.err # "NotRun" /\ FirstListIsShort) => riff.err = "InvalidListHeader"
    /\ riff.err = "None" =>
           \A n \in NodesOf(riff.childs) : n.kind = "list" => n.size >= 4

=============================================================================
